---- MODULE Spec2Model ----
(***************************************************************************)
(* A model of global-recipes (src/src/globalRecipe.ts): buildVariantSelector *)
(* and globalRecipe with its inner applyStyle, run against a capturing      *)
(* globalStyle (the mock of src/src/globalRecipe.test.ts).                  *)
(*                                                                         *)
(* JavaScript values are tagged records: [t |-> "undefined"],              *)
(* [t |-> "string", v |-> s], [t |-> "boolean", v |-> b],                  *)
(* [t |-> "object", v |-> entries] and [t |-> "function", suffix |-> s].   *)
(* An object's entries are a sequence of [k, v] records with distinct keys,*)
(* in the order the properties were created. JavaScript strings are TLA+   *)
(* strings and template literals are \o.                                   *)
(***************************************************************************)
EXTENDS Integers, Sequences, FiniteSets, TLC

VARIABLES
    recipe,              \* the recipe argument: [base, variants] of recipe.classNames
    selectorGenerators,  \* the selectorGenerators argument (an object of functions)
    base,                \* the base argument (a style object or undefined)
    compoundVariants,    \* the compoundVariants argument (an array or undefined)
    variants,            \* the variants argument of a direct buildVariantSelector call
    selector,            \* what that buildVariantSelector call returned
    pc,                  \* where the invocation stands
    idx,                 \* forEach's index into compoundVariants (1-based)
    calls,               \* the calls globalStyle has received, in order
    marks                \* how many calls globalStyle had received when each invocation began

vars == <<recipe, selectorGenerators, base, compoundVariants, variants, selector, pc, idx, calls, marks>>

----------------------------------------------------------------------------
(* Bounds of the model *)

\* the most entries a variant choice given to buildVariantSelector has
MaxChoice == 2
\* the most keys a style's selectors mapping has
MaxSelectors == 2
\* the most entries the compoundVariants array has
MaxCompound == 2

----------------------------------------------------------------------------
(* JavaScript values *)

Undefined == [t |-> "undefined"]
Str(s) == [t |-> "string", v |-> s]
Bool(b) == [t |-> "boolean", v |-> b]
Obj(entries) == [t |-> "object", v |-> entries]
\* a selector generator (v) => `${v}<suffix>`
Fn(suffix) == [t |-> "function", suffix |-> suffix]

\* ToBoolean: undefined, "" and false are falsy; objects and functions are truthy
Truthy(x) ==
    CASE x.t = "undefined" -> FALSE
      [] x.t = "string" -> x.v # ""
      [] x.t = "boolean" -> x.v
      [] OTHER -> TRUE

\* o[key] on an object's entries: the own property, or undefined
Get(entries, key) ==
    IF \E n \in 1..Len(entries) : entries[n].k = key
    THEN entries[CHOOSE n \in 1..Len(entries) : entries[n].k = key].v
    ELSE Undefined

\* the property names that are array indices, with their numeric value
IndexOf == ("0" :> 0) @@ ("1" :> 1) @@ ("2" :> 2)
IsIndex(key) == key \in DOMAIN IndexOf

RECURSIVE IndexEntriesFrom(_, _)
IndexEntriesFrom(entries, n) ==
    IF n >= Cardinality(DOMAIN IndexOf) THEN <<>>
    ELSE SelectSeq(entries, LAMBDA e : IsIndex(e.k) /\ IndexOf[e.k] = n)
         \o IndexEntriesFrom(entries, n + 1)

\* Object.entries: array-index keys in ascending numeric order, then the
\* other string keys in the order they were created
ObjectEntries(entries) ==
    IndexEntriesFrom(entries, 0) \o SelectSeq(entries, LAMBDA e : ~IsIndex(e.k))

KeysOf(entries) == { entries[n].k : n \in 1..Len(entries) }

\* all objects with at most n properties, keys from K, values from V,
\* in every creation order
RECURSIVE Objects(_, _, _)
Objects(K, V, n) ==
    IF n = 0 THEN {<<>>}
    ELSE LET shorter == Objects(K, V, n - 1)
         IN shorter \cup
            UNION { { Append(o, [k |-> key, v |-> val]) : key \in K \ KeysOf(o), val \in V }
                    : o \in { s \in shorter : Len(s) = n - 1 } }

----------------------------------------------------------------------------
(* buildVariantSelector, src/src/globalRecipe.ts:68-89 *)

\* VariantKey with false lost: `variantValue ? "true" : variantValue`
VariantKeyFalseLost(variantValue) ==
    IF variantValue.t = "boolean"
    THEN (IF variantValue.v THEN "true" ELSE "")
    ELSE variantValue.v

\* line 81: a boolean is looked up under "true" / "false", a string under itself
VariantKey(variantValue) ==
    IF variantValue.t = "boolean"
    THEN (IF variantValue.v THEN "true" ELSE "false")
    ELSE variantValue.v

\* VariantPart without the check of line 83: every looked-up value is pushed
VariantPartUnchecked(classNames, variantName, variantValue) ==
    IF variantValue = Undefined THEN <<>>
    ELSE LET variantClassNames == Get(classNames, variantName)
         IN IF ~Truthy(variantClassNames) THEN <<>>
            ELSE LET className == Get(variantClassNames.v, VariantKey(variantValue))
                 IN IF className = Undefined THEN << ".undefined" >>
                    ELSE << "." \o className.v >>

\* lines 76-85, one iteration of the loop: the parts it pushes
VariantPart(classNames, variantName, variantValue) ==
    IF variantValue = Undefined THEN <<>>
    ELSE LET variantClassNames == Get(classNames, variantName)
         IN IF ~Truthy(variantClassNames) THEN <<>>
            ELSE LET className == Get(variantClassNames.v, VariantKey(variantValue))
                 IN IF Truthy(className) THEN << "." \o className.v >> ELSE <<>>

\* lines 75-86: the loop over Object.entries(variants)
RECURSIVE VariantParts(_, _)
VariantParts(classNames, entries) ==
    IF entries = <<>> THEN <<>>
    ELSE VariantPart(classNames, Head(entries).k, Head(entries).v)
         \o VariantParts(classNames, Tail(entries))

\* Array.prototype.join("")
RECURSIVE Join(_)
Join(parts) == IF parts = <<>> THEN "" ELSE Head(parts) \o Join(Tail(parts))

\* buildVariantSelector looping over the table's groups instead of the choice's
buildVariantSelectorTableOrder(r, vs) ==
    Join(VariantParts(r.variants,
        [n \in 1..Len(ObjectEntries(r.variants)) |->
            [k |-> ObjectEntries(r.variants)[n].k,
             v |-> Get(vs, ObjectEntries(r.variants)[n].k)]]))

buildVariantSelector(r, vs) ==
    Join(VariantParts(r.variants, ObjectEntries(vs)))

----------------------------------------------------------------------------
(* The recipes and variant choices of the model *)

\* createMockRecipe of the tests: a base class name and the variants table.
\* RecipeB lists the groups of RecipeA in the opposite order.
TableGroups ==
    << [k |-> "size", v |-> Obj(<< [k |-> "sm", v |-> Str("s_sm")],
                                   [k |-> "md", v |-> Str("s_md")] >>)],
       [k |-> "disabled", v |-> Obj(<< [k |-> "true", v |-> Str("d_t")],
                                       [k |-> "false", v |-> Str("d_f")] >>)],
       [k |-> "0", v |-> Obj(<< [k |-> "on", v |-> Str("z_on")] >>)],
       [k |-> "1", v |-> Obj(<< [k |-> "on", v |-> Str("y_on")] >>)],
       [k |-> "color", v |-> Obj(<< [k |-> "red", v |-> Str("")] >>)] >>

Reverse(s) == [n \in 1..Len(s) |-> s[Len(s) + 1 - n]]

RecipeA == [base |-> "btn", variants |-> TableGroups]
RecipeB == [base |-> "btn", variants |-> Reverse(TableGroups)]
Recipes == {RecipeA, RecipeB}

\* "ghost" is a group no table has, "xl" a value no group has
ChoiceKeys == {"size", "disabled", "0", "1", "color", "ghost"}
ChoiceValues ==
    {Undefined, Bool(TRUE), Bool(FALSE)}
    \cup { Str(s) : s \in {"sm", "xl", "on", "red"} }

Choices == Objects(ChoiceKeys, ChoiceValues, MaxChoice)

----------------------------------------------------------------------------
(* A direct call of buildVariantSelector *)

InitSelector ==
    /\ recipe \in Recipes
    /\ variants \in Choices
    /\ selector = Undefined
    /\ selectorGenerators = <<>>
    /\ base = Undefined
    /\ compoundVariants = Undefined
    /\ pc = "buildVariantSelector"
    /\ idx = 0
    /\ calls = <<>>
    /\ marks = << 0 >>

BuildVariantSelector ==
    /\ pc = "buildVariantSelector"
    /\ selector' = Str(buildVariantSelector(recipe, variants))
    /\ pc' = "selected"
    /\ UNCHANGED <<recipe, selectorGenerators, base, compoundVariants, variants, idx, calls, marks>>

NextSelector == BuildVariantSelector

SpecSelector == InitSelector /\ [][NextSelector]_vars

----------------------------------------------------------------------------
(* globalRecipe and its applyStyle, src/src/globalRecipe.ts:147-180 *)

\* calling a selector generator: (v) => `${v}<suffix>`
CallGenerator(generator, classSelector) == classSelector \o generator.suffix

\* RestProperties without the destructuring: `properties = style`
RestPropertiesAll(style) == ObjectEntries(style)

\* line 154, `...properties`: the style's own properties but "selectors"
RestProperties(style) == SelectSeq(ObjectEntries(style), LAMBDA e : e.k # "selectors")

\* a call globalStyle(selector, rule). from, key and nested are history: the block
\* the call comes from (0 the base, i the i-th compound variant), the generator
\* key used, and whether the call is for a key of the block's selectors mapping
GlobalStyleCall(sel, rule, from, key, nested) ==
    [selector |-> sel, rule |-> rule, from |-> from, key |-> key, nested |-> nested]

NoCalls == [threw |-> FALSE, calls |-> <<>>]
TypeError == [threw |-> TRUE, calls |-> <<>>]

\* SelfCall with the check of line 156 on the whole style: `Object.keys(style)`
SelfCallStyleLength(gens, classSelector, style, from) ==
    IF Len(style) > 0
    THEN (IF Get(gens, "&").t = "function"
          THEN [threw |-> FALSE,
                calls |-> << GlobalStyleCall(CallGenerator(Get(gens, "&"), classSelector),
                                             RestProperties(style), from, "&", FALSE) >>]
          ELSE TypeError)
    ELSE NoCalls

\* SelfCall with the "&" generator called before the check of line 156
SelfCallEager(gens, classSelector, style, from) ==
    IF Get(gens, "&").t = "function"
    THEN (IF Len(RestProperties(style)) > 0
          THEN [threw |-> FALSE,
                calls |-> << GlobalStyleCall(CallGenerator(Get(gens, "&"), classSelector),
                                             RestProperties(style), from, "&", FALSE) >>]
          ELSE NoCalls)
    ELSE TypeError

\* lines 156-158: the "&" call, a TypeError when selectorGenerators["&"] is
\* no function
SelfCall(gens, classSelector, style, from) ==
    IF Len(RestProperties(style)) > 0
    THEN (IF Get(gens, "&").t = "function"
          THEN [threw |-> FALSE,
                calls |-> << GlobalStyleCall(CallGenerator(Get(gens, "&"), classSelector),
                                             RestProperties(style), from, "&", FALSE) >>]
          ELSE TypeError)
    ELSE NoCalls

\* SelectorCalls passing over the key "&": `if (selectorKey === "&") continue`
RECURSIVE SelectorCallsSkipSelf(_, _, _, _)
SelectorCallsSkipSelf(gens, classSelector, entries, from) ==
    IF entries = <<>> THEN <<>>
    ELSE LET selectorKey == Head(entries).k
             selectorStyle == Head(entries).v
             generator == Get(gens, selectorKey)
         IN (IF selectorKey # "&" /\ Truthy(generator) /\ Truthy(selectorStyle)
             THEN << GlobalStyleCall(CallGenerator(generator, classSelector),
                                     selectorStyle.v, from, selectorKey, TRUE) >>
             ELSE <<>>)
            \o SelectorCallsSkipSelf(gens, classSelector, Tail(entries), from)

\* SelectorCalls leaving the loop at the first key without a generator:
\* `if (!generator) break`
RECURSIVE SelectorCallsBreak(_, _, _, _)
SelectorCallsBreak(gens, classSelector, entries, from) ==
    IF entries = <<>> THEN <<>>
    ELSE LET selectorKey == Head(entries).k
             selectorStyle == Head(entries).v
             generator == Get(gens, selectorKey)
         IN IF ~Truthy(generator) THEN <<>>
            ELSE (IF Truthy(selectorStyle)
                  THEN << GlobalStyleCall(CallGenerator(generator, classSelector),
                                          selectorStyle.v, from, selectorKey, TRUE) >>
                  ELSE <<>>)
                 \o SelectorCallsBreak(gens, classSelector, Tail(entries), from)

\* lines 161-166, the loop over Object.entries(selectors)
RECURSIVE SelectorCalls(_, _, _, _)
SelectorCalls(gens, classSelector, entries, from) ==
    IF entries = <<>> THEN <<>>
    ELSE LET selectorKey == Head(entries).k
             selectorStyle == Head(entries).v
             generator == Get(gens, selectorKey)
         IN (IF Truthy(generator) /\ Truthy(selectorStyle)
             THEN << GlobalStyleCall(CallGenerator(generator, classSelector),
                                     selectorStyle.v, from, selectorKey, TRUE) >>
             ELSE <<>>)
            \o SelectorCalls(gens, classSelector, Tail(entries), from)

\* lines 160-167
NestedCalls(gens, classSelector, style, from) ==
    LET selectors == Get(style, "selectors")
    IN IF Truthy(selectors)
       THEN SelectorCalls(gens, classSelector, ObjectEntries(selectors.v), from)
       ELSE <<>>

\* applyStyle with the selectors loop moved before the "&" call
applyStyleSelectorsFirst(gens, classSelector, style, from) ==
    LET self == SelfCall(gens, classSelector, style, from)
    IN [threw |-> self.threw,
        calls |-> NestedCalls(gens, classSelector, style, from) \o self.calls]

\* applyStyle calling the generator of every state key, without the
\* `generator &&` of line 163: a TypeError at a key that has none
applyStyleUnguarded(gens, classSelector, style, from) ==
    LET self == SelfCall(gens, classSelector, style, from)
        selectors == Get(style, "selectors")
    IN IF self.threw THEN TypeError
       ELSE IF Truthy(selectors)
               /\ \E n \in 1..Len(selectors.v) : ~Truthy(Get(gens, selectors.v[n].k))
       THEN [threw |-> TRUE, calls |-> self.calls]
       ELSE [threw |-> FALSE,
             calls |-> self.calls \o NestedCalls(gens, classSelector, style, from)]

\* lines 153-168: the globalStyle calls applyStyle makes, and whether it threw
applyStyle(gens, classSelector, style, from) ==
    LET self == SelfCall(gens, classSelector, style, from)
    IN IF self.threw THEN TypeError
       ELSE [threw |-> FALSE,
             calls |-> self.calls \o NestedCalls(gens, classSelector, style, from)]

\* BaseClassSelector without the dot: `recipe.classNames.base`
BaseClassSelectorNoDot(r) == r.base

\* line 171: `.${recipe.classNames.base}`
BaseClassSelector(r) == "." \o r.base

\* ApplyBase leaving out a call whose selector and rule globalStyle has
\* already received
ApplyBaseDeduplicated ==
    /\ pc = "base"
    /\ LET applied == IF Truthy(base)
                      THEN applyStyle(selectorGenerators, BaseClassSelector(recipe), base.v, 0)
                      ELSE NoCalls
           fresh == SelectSeq(applied.calls,
                              LAMBDA c : \A n \in 1..Len(calls) :
                                            \/ calls[n].selector # c.selector
                                            \/ calls[n].rule # c.rule)
       IN /\ calls' = calls \o fresh
          /\ pc' = IF applied.threw THEN "thrown" ELSE "forEach"
    /\ idx' = 1
    /\ UNCHANGED <<recipe, selectorGenerators, base, compoundVariants, variants, selector, marks>>

\* lines 170-172
ApplyBase ==
    /\ pc = "base"
    /\ LET applied == IF Truthy(base)
                      THEN applyStyle(selectorGenerators, BaseClassSelector(recipe), base.v, 0)
                      ELSE NoCalls
       IN /\ calls' = calls \o applied.calls
          /\ pc' = IF applied.threw THEN "thrown" ELSE "forEach"
    /\ idx' = 1
    /\ UNCHANGED <<recipe, selectorGenerators, base, compoundVariants, variants, selector, marks>>

\* ForEachCompoundVariant without the check of line 176
ForEachCompoundVariantUnchecked ==
    /\ pc = "forEach"
    /\ Truthy(compoundVariants)
    /\ idx <= Len(compoundVariants.v)
    /\ LET entry == compoundVariants.v[idx]
           variantSelector == buildVariantSelector(recipe, entry.variants)
           applied == applyStyle(selectorGenerators, variantSelector, entry.style, idx)
       IN /\ variants' = entry.variants
          /\ selector' = Str(variantSelector)
          /\ calls' = calls \o applied.calls
          /\ pc' = IF applied.threw THEN "thrown" ELSE "forEach"
    /\ idx' = idx + 1
    /\ UNCHANGED <<recipe, selectorGenerators, base, compoundVariants, marks>>

\* ForEachCompoundVariant walking the array from its end
ForEachCompoundVariantReversed ==
    /\ pc = "forEach"
    /\ Truthy(compoundVariants)
    /\ idx <= Len(compoundVariants.v)
    /\ LET at == Len(compoundVariants.v) + 1 - idx
           entry == compoundVariants.v[at]
           variantSelector == buildVariantSelector(recipe, entry.variants)
           applied == IF variantSelector # ""
                      THEN applyStyle(selectorGenerators, variantSelector, entry.style, at)
                      ELSE NoCalls
       IN /\ variants' = entry.variants
          /\ selector' = Str(variantSelector)
          /\ calls' = calls \o applied.calls
          /\ pc' = IF applied.threw THEN "thrown" ELSE "forEach"
    /\ idx' = idx + 1
    /\ UNCHANGED <<recipe, selectorGenerators, base, compoundVariants, marks>>

\* ForEachCompoundVariant applying only the entries all of whose choices resolve
ForEachCompoundVariantAllResolved ==
    /\ pc = "forEach"
    /\ Truthy(compoundVariants)
    /\ idx <= Len(compoundVariants.v)
    /\ LET entry == compoundVariants.v[idx]
           variantSelector == buildVariantSelector(recipe, entry.variants)
           resolved == Len(VariantParts(recipe.variants, ObjectEntries(entry.variants)))
           applied == IF variantSelector # "" /\ resolved = Len(entry.variants)
                      THEN applyStyle(selectorGenerators, variantSelector, entry.style, idx)
                      ELSE NoCalls
       IN /\ variants' = entry.variants
          /\ selector' = Str(variantSelector)
          /\ calls' = calls \o applied.calls
          /\ pc' = IF applied.threw THEN "thrown" ELSE "forEach"
    /\ idx' = idx + 1
    /\ UNCHANGED <<recipe, selectorGenerators, base, compoundVariants, marks>>

\* lines 174-179, one callback of forEach
ForEachCompoundVariant ==
    /\ pc = "forEach"
    /\ Truthy(compoundVariants)
    /\ idx <= Len(compoundVariants.v)
    /\ LET entry == compoundVariants.v[idx]
           variantSelector == buildVariantSelector(recipe, entry.variants)
           applied == IF variantSelector # ""
                      THEN applyStyle(selectorGenerators, variantSelector, entry.style, idx)
                      ELSE NoCalls
       IN /\ variants' = entry.variants
          /\ selector' = Str(variantSelector)
          /\ calls' = calls \o applied.calls
          /\ pc' = IF applied.threw THEN "thrown" ELSE "forEach"
    /\ idx' = idx + 1
    /\ UNCHANGED <<recipe, selectorGenerators, base, compoundVariants, marks>>

\* Return with `compoundVariants.forEach`, no `?.`: a TypeError on undefined
ReturnNoOptionalChaining ==
    /\ pc = "forEach"
    /\ IF Truthy(compoundVariants) THEN idx > Len(compoundVariants.v) ELSE TRUE
    /\ pc' = IF Truthy(compoundVariants) THEN "returned" ELSE "thrown"
    /\ UNCHANGED <<recipe, selectorGenerators, base, compoundVariants, variants, selector, idx, calls, marks>>

\* line 174 with compoundVariants undefined, or forEach past the last entry
Return ==
    /\ pc = "forEach"
    /\ IF Truthy(compoundVariants) THEN idx > Len(compoundVariants.v) ELSE TRUE
    /\ pc' = "returned"
    /\ UNCHANGED <<recipe, selectorGenerators, base, compoundVariants, variants, selector, idx, calls, marks>>

----------------------------------------------------------------------------
(* The arguments of the modelled globalRecipe invocations *)

Array(elements) == [t |-> "array", v |-> elements]

\* all sequences over S of length at most n
RECURSIVE SeqsUpTo(_, _)
SeqsUpTo(S, n) ==
    IF n = 0 THEN {<<>>}
    ELSE LET shorter == SeqsUpTo(S, n - 1)
         IN shorter \cup { Append(q, x) : q \in { t \in shorter : Len(t) = n - 1 }, x \in S }

\* the generator each key gets when selectorGenerators has it
GeneratorOf(key) ==
    CASE key = "&" -> Fn(" svg")
      [] key = "&:hover" -> Fn(":hover svg")
      [] key = "&:focus" -> Fn(":focus svg")
      [] key = "0" -> Fn(" path")

GeneratorsOver(keys) ==
    SelectSeq(<< [k |-> "&", v |-> GeneratorOf("&")],
                 [k |-> "&:hover", v |-> GeneratorOf("&:hover")],
                 [k |-> "&:focus", v |-> GeneratorOf("&:focus")],
                 [k |-> "0", v |-> GeneratorOf("0")] >>,
              LAMBDA e : e.k \in keys)

\* the state keys of the model: two pseudo-class tags and an array-index tag
StateKeys == {"&:hover", "&:focus", "0"}
GeneratorKeySets == { self \cup states : self \in {{}, {"&"}}, states \in SUBSET StateKeys }

\* top-level properties: plain ones and an at-rule block
Width == [k |-> "width", v |-> Str("16px")]
Media == [k |-> "@media", v |-> Obj(<< [k |-> "print", v |-> Obj(<< [k |-> "width", v |-> Str("20px")] >>)] >>)]
Color == [k |-> "color", v |-> Str("red")]

(* Style blocks in depth: every selectors mapping of at most MaxSelectors keys *)
NestedBlocks == {Undefined, Obj(<<>>), Obj(<< Color >>)}
SelectorMappings == Objects(StateKeys, NestedBlocks, MaxSelectors)
DeepStyles ==
    { top \o sel :
        top \in {<<>>, << Width, Media >>},
        sel \in {<<>>, << [k |-> "selectors", v |-> Undefined] >>}
                \cup { << [k |-> "selectors", v |-> Obj(m)] >> : m \in SelectorMappings } }
    \cup { << [k |-> "selectors", v |-> Obj(m)], Width >> : m \in SelectorMappings }

(* Style blocks and choices for whole invocations *)
Hover == [k |-> "selectors", v |-> Obj(<< [k |-> "&:hover", v |-> Obj(<< Color >>)] >>)]
Styles == {<< Width >>, << Hover >>, << Width, Hover >>}
EntryChoices ==
    { <<>>,
      << [k |-> "size", v |-> Str("sm")] >>,
      << [k |-> "disabled", v |-> Bool(FALSE)], [k |-> "color", v |-> Str("red")],
         [k |-> "size", v |-> Undefined], [k |-> "ghost", v |-> Str("sm")],
         [k |-> "0", v |-> Str("xl")] >>,
      << [k |-> "size", v |-> Undefined], [k |-> "ghost", v |-> Str("sm")],
         [k |-> "disabled", v |-> Str("xl")] >> }
CompoundEntries == [variants : EntryChoices, style : Styles]

\* invocations that apply one style block in depth, as the base
DeepBase ==
    /\ recipe = RecipeA
    /\ \E keys \in GeneratorKeySets : selectorGenerators = GeneratorsOver(keys)
    /\ \E style \in DeepStyles : base = Obj(style)
    /\ compoundVariants = Undefined

\* invocations that apply one style block in depth, as a compound variant
DeepCompound ==
    /\ recipe = RecipeA
    /\ \E keys \in GeneratorKeySets : selectorGenerators = GeneratorsOver(keys)
    /\ base = Undefined
    /\ \E style \in DeepStyles :
          compoundVariants =
              Array(<< [variants |-> << [k |-> "size", v |-> Str("sm")] >>, style |-> style] >>)

(* Style blocks whose selectors mapping has the key "&", which the type
   StyleRuleWithSelectors excludes and the code does not look for *)
SelfKeyMappings ==
    { m \in Objects({"&", "&:hover"}, {Undefined, Obj(<< Color >>)}, MaxSelectors) :
        "&" \in KeysOf(m) }
SelfKeyStyles ==
    { top \o << [k |-> "selectors", v |-> Obj(m)] >> :
        top \in {<<>>, << Width >>}, m \in SelfKeyMappings }

\* invocations with "&" among the keys of a selectors mapping, in the base and
\* in a compound variant
SelfKey ==
    /\ recipe = RecipeA
    /\ \E keys \in {{"&"}, {"&", "&:hover"}, {"&:hover"}} :
          selectorGenerators = GeneratorsOver(keys)
    /\ \E style \in SelfKeyStyles : base = Obj(style)
    /\ compoundVariants \in
          {Undefined}
          \cup { Array(<< [variants |-> << [k |-> "size", v |-> Str("sm")] >>, style |-> style] >>) :
                   style \in SelfKeyStyles }

\* invocations with a base and up to MaxCompound compound variants
Wide ==
    /\ recipe = RecipeA
    /\ \E keys \in {{"&", "&:hover"}, {"&:hover"}} : selectorGenerators = GeneratorsOver(keys)
    /\ base \in {Undefined} \cup { Obj(style) : style \in Styles }
    /\ compoundVariants \in
          {Undefined} \cup { Array(q) : q \in SeqsUpTo(CompoundEntries, MaxCompound) }

Init ==
    /\ DeepBase \/ DeepCompound \/ SelfKey \/ Wide
    /\ variants = <<>>
    /\ selector = Undefined
    /\ pc = "base"
    /\ idx = 0
    /\ calls = <<>>
    /\ marks = << 0 >>

Next == ApplyBase \/ ForEachCompoundVariant \/ Return

Spec == Init /\ [][Next]_vars

----------------------------------------------------------------------------
(* Several invocations in a row against the same globalStyle, whose record *)
(* of calls is never cleared between them.                                 *)

MaxInvocations == 2

RepeatStyles == {<< Width >>, << Width, Hover >>}

\* compound variants for the repeated runs: the same entry may come twice
RepeatEntries ==
    { [variants |-> << [k |-> "size", v |-> Str("sm")] >>, style |-> << Width >>],
      [variants |-> << [k |-> "size", v |-> Str("xl")] >>, style |-> << Width >>],
      [variants |-> << [k |-> "disabled", v |-> Bool(TRUE)] >>, style |-> << Hover >>] }

RepeatArguments ==
    /\ recipe' = RecipeA
    /\ \E keys \in {{"&"}, {"&", "&:hover"}} : selectorGenerators' = GeneratorsOver(keys)
    /\ base' \in {Undefined} \cup { Obj(style) : style \in RepeatStyles }
    /\ compoundVariants' \in
          {Undefined} \cup { Array(<< e >>) : e \in RepeatEntries }
                      \cup { Array(<< e, e >>) : e \in RepeatEntries }

InitRepeat ==
    /\ recipe = RecipeA
    /\ \E keys \in {{"&"}, {"&", "&:hover"}} : selectorGenerators = GeneratorsOver(keys)
    /\ base \in {Undefined} \cup { Obj(style) : style \in RepeatStyles }
    /\ compoundVariants \in
          {Undefined} \cup { Array(<< e >>) : e \in RepeatEntries }
                      \cup { Array(<< e, e >>) : e \in RepeatEntries }
    /\ variants = <<>>
    /\ selector = Undefined
    /\ pc = "base"
    /\ idx = 0
    /\ calls = <<>>
    /\ marks = << 0 >>

\* the next call of globalRecipe, once the previous one has returned
Invoke ==
    /\ pc = "returned"
    /\ Len(marks) < MaxInvocations
    /\ RepeatArguments
    /\ variants' = <<>>
    /\ selector' = Undefined
    /\ pc' = "base"
    /\ idx' = 0
    /\ marks' = Append(marks, Len(calls))
    /\ UNCHANGED calls

NextRepeat == ApplyBase \/ ForEachCompoundVariant \/ Return \/ Invoke

SpecRepeat == InitRepeat /\ [][NextRepeat]_vars

----------------------------------------------------------------------------
(* Claims about buildVariantSelector, checked under SpecSelector *)

\* the token a choice value stands for
TokenOf(value) == IF value = Bool(TRUE) THEN "true"
                  ELSE IF value = Bool(FALSE) THEN "false" ELSE value.v

\* a choice entry qualifies: it is set, its group is in the table, and its token
\* has a class name there (an empty class name is no class name)
Qualifies(r, e) ==
    /\ e.v # Undefined
    /\ e.k \in KeysOf(r.variants)
    /\ TokenOf(e.v) \in KeysOf(Get(r.variants, e.k).v)
    /\ Get(Get(r.variants, e.k).v, TokenOf(e.v)).v # ""

\* "." + table[group][token]
Fragment(r, e) == "." \o Get(Get(r.variants, e.k).v, TokenOf(e.v)).v

\* the fragments of the qualifying entries of a sequence of entries, concatenated
RECURSIVE Concatenation(_, _)
Concatenation(r, entries) ==
    IF entries = <<>> THEN ""
    ELSE (IF Qualifies(r, Head(entries)) THEN Fragment(r, Head(entries)) ELSE "")
         \o Concatenation(r, Tail(entries))

Returned == pc = "selected"

\* C1: buildVariantSelector returns the concatenation, with no separator, of
\* "." + table[group][token] for each choice entry that is set, whose group is
\* in the table and whose token has a class name in that group, and the empty
\* string when no entry qualifies.
C1_Concatenation ==
    Returned =>
        /\ selector = Str(Concatenation(recipe, ObjectEntries(variants)))
        /\ (\A n \in 1..Len(variants) : ~Qualifies(recipe, variants[n]))
               => selector = Str("")

\* C1 witness: two entries qualify, a third kind does not, and the result is
\* the two fragments side by side
C1_Witness ==
    /\ Returned
    /\ variants = << [k |-> "size", v |-> Str("sm")], [k |-> "disabled", v |-> Bool(TRUE)] >>
    /\ selector = Str(".s_sm.d_t")

\* C1 witness of the empty result: entries that are unset or name an absent group
C1_WitnessEmpty ==
    /\ Returned
    /\ variants = << [k |-> "size", v |-> Undefined], [k |-> "ghost", v |-> Str("sm")] >>
    /\ selector = Str("")

\* a choice with every boolean value replaced by its token
BooleansAsTokens(vs) ==
    [n \in 1..Len(vs) |->
        [k |-> vs[n].k,
         v |-> IF vs[n].v.t = "boolean" THEN Str(TokenOf(vs[n].v)) ELSE vs[n].v]]

\* C7: a boolean choice value is looked up under the token "true" or "false":
\* the choice yields the selector of the same choice with "true" / "false" in
\* place of true / false, and false on a group that has the token "false"
\* contributes that class, it is not unset.
C7_BooleanTokens ==
    Returned =>
        /\ selector = Str(buildVariantSelector(recipe, BooleansAsTokens(variants)))
        /\ \A b \in BOOLEAN :
             variants = << [k |-> "disabled", v |-> Bool(b)] >>
                 => selector = Str("." \o Get(Get(recipe.variants, "disabled").v,
                                              IF b THEN "true" ELSE "false").v)

\* C7 witness: {disabled: false} returned the class of the token "false"
C7_Witness ==
    /\ Returned
    /\ variants = << [k |-> "disabled", v |-> Bool(FALSE)] >>
    /\ selector = Str(".d_f")

\* entry a is enumerated before entry b of choice vs: array-index group names
\* come first, in ascending numeric order, then the others as inserted
EnumeratedBefore(vs, a, b) ==
    IF IsIndex(vs[a].k) /\ IsIndex(vs[b].k) THEN IndexOf[vs[a].k] < IndexOf[vs[b].k]
    ELSE IF IsIndex(vs[a].k) THEN TRUE
    ELSE IF IsIndex(vs[b].k) THEN FALSE
    ELSE a < b

\* the entries of vs in the order EnumeratedBefore gives
Enumerated(vs) ==
    [n \in 1..Len(vs) |->
        vs[CHOOSE a \in 1..Len(vs) :
              Cardinality({ b \in 1..Len(vs) : EnumeratedBefore(vs, b, a) }) = n - 1]]

\* C8 as stated: the fragments come in the insertion order of the non-skipped
\* entries of the choice.
C8_InsertionOrder ==
    Returned => selector = Str(Concatenation(recipe, variants))

\* C8 amended: the fragments come in the order Object.entries enumerates the
\* choice (array-index group names first, ascending, then the other entries in
\* insertion order), whatever the order of the groups in the table.
C8_EnumerationOrder ==
    Returned =>
        /\ selector = Str(Concatenation(recipe, Enumerated(variants)))
        /\ \A r \in Recipes : selector = Str(buildVariantSelector(r, variants))

\* C8 witness: the choice lists disabled before size, RecipeA's table size
\* before disabled, and the result follows the choice
C8_Witness ==
    /\ Returned
    /\ recipe = RecipeA
    /\ variants = << [k |-> "disabled", v |-> Bool(TRUE)], [k |-> "size", v |-> Str("sm")] >>
    /\ selector = Str(".d_t.s_sm")

----------------------------------------------------------------------------
(* Claims about globalRecipe, checked under Spec *)

\* the style block a call's history names: the base or a compound variant's style
BlockOf(from) == IF from = 0 THEN base.v ELSE compoundVariants.v[from].style

\* the compound class selector of that block
ClassSelectorOf(from) ==
    IF from = 0 THEN "." \o recipe.base
    ELSE buildVariantSelector(recipe, compoundVariants.v[from].variants)

\* the top-level entries of a block, and its selectors mapping (empty if none)
TopLevel(style) == SelectSeq(style, LAMBDA e : e.k # "selectors")
MappingOf(style) ==
    IF "selectors" \in KeysOf(style) /\ Get(style, "selectors") # Undefined
    THEN Get(style, "selectors").v ELSE <<>>

\* globalRecipe has run applyStyle on the block to its end
Applied(from) ==
    IF from = 0 THEN pc # "base" /\ base # Undefined /\ ~(pc = "thrown" /\ idx = 1)
    ELSE /\ compoundVariants # Undefined
         /\ from \in 1..Len(compoundVariants.v)
         /\ from < idx
         /\ ClassSelectorOf(from) # ""
         /\ ~(pc = "thrown" /\ idx = from + 1)

Blocks == 0..(IF compoundVariants = Undefined THEN 0 ELSE Len(compoundVariants.v))
CallsFrom(from) == { n \in 1..Len(calls) : calls[n].from = from }
PositionOf(entries, key) == CHOOSE n \in 1..Len(entries) : entries[n].k = key

\* C2: globalRecipe makes no globalStyle call for a compound variant whose
\* variant selector came out empty: a forEach callback that computed "" leaves
\* the calls as they were, whatever the entry's style holds.
C2_EmptySelectorNoCall ==
    [][(idx' = idx + 1 /\ selector' = Str("")) => calls' = calls]_vars

\* C2 witness: the first entry resolved to "", its style has top-level
\* properties and a nested state style with a generator, and nothing was called
C2_Witness ==
    /\ idx = 2
    /\ selector = Str("")
    /\ compoundVariants.v[1].style = << Width, Hover >>
    /\ {"&", "&:hover"} \subseteq KeysOf(selectorGenerators)
    /\ calls = <<>>

\* C3: every call's selector is the generator of the call's key applied to the
\* block's class selector: "." + the base class name for the base, the result of
\* buildVariantSelector for a compound variant; the top-level properties go
\* under the "&" generator, a nested state block under the generator of its key.
C3_SelectorOfCall ==
    \A n \in 1..Len(calls) :
        /\ calls[n].selector
             = ClassSelectorOf(calls[n].from) \o Get(selectorGenerators, calls[n].key).suffix
        /\ ~calls[n].nested => calls[n].key = "&"
        /\ calls[n].nested => calls[n].key \in KeysOf(MappingOf(BlockOf(calls[n].from)))

\* C3 witness: the base under "&" and a compound variant's hover block
C3_Witness ==
    /\ pc = "returned"
    /\ \E m, n \in 1..Len(calls) :
          /\ calls[m].from = 0 /\ ~calls[m].nested /\ calls[m].selector = ".btn svg"
          /\ calls[n].from > 0 /\ calls[n].nested /\ calls[n].selector = ".s_sm:hover svg"

\* C4: the calls of the base come before the calls of every compound variant,
\* and the calls of entry i before those of entry j when i precedes j.
C4_BlockOrder ==
    \A m, n \in 1..Len(calls) : calls[m].from < calls[n].from => m < n

\* C4 witness: the base and two compound variants all made calls
C4_Witness ==
    /\ pc = "returned"
    /\ CallsFrom(0) # {} /\ CallsFrom(1) # {} /\ CallsFrom(2) # {}

\* C5 as stated: within a block the "&" call comes before every nested-state
\* call, and the nested-state calls come in the insertion order of the
\* selectors mapping.
C5_InsertionOrder ==
    \A m, n \in 1..Len(calls) :
        (calls[m].from = calls[n].from /\ calls[n].nested) =>
            /\ ~calls[m].nested => m < n
            /\ (calls[m].nested /\ m < n) =>
                  PositionOf(MappingOf(BlockOf(calls[m].from)), calls[m].key)
                    < PositionOf(MappingOf(BlockOf(calls[n].from)), calls[n].key)

\* C5 amended: within a block the "&" call comes before every nested-state
\* call, and the nested-state calls come in the order Object.entries enumerates
\* the selectors mapping: array-index keys first, ascending, then the other
\* keys in insertion order.
C5_EnumerationOrder ==
    \A m, n \in 1..Len(calls) :
        (calls[m].from = calls[n].from /\ calls[n].nested) =>
            /\ ~calls[m].nested => m < n
            /\ (calls[m].nested /\ m < n) =>
                  LET mapping == MappingOf(BlockOf(calls[m].from))
                  IN EnumeratedBefore(mapping, PositionOf(mapping, calls[m].key),
                                      PositionOf(mapping, calls[n].key))

\* C5 witness: a block with a top-level property and two nested states made
\* its "&" call first and the nested calls in the mapping's order
C5_Witness ==
    /\ pc = "returned"
    /\ base # Undefined
    /\ TopLevel(base.v) = << Width, Media >> \/ TopLevel(base.v) = << Width >>
    /\ [n \in 1..Len(MappingOf(base.v)) |-> MappingOf(base.v)[n].k] = << "&:hover", "&:focus" >>
    /\ [n \in 1..Len(calls) |-> <<calls[n].key, calls[n].nested>>]
         = << <<"&", FALSE>>, <<"&:hover", TRUE>>, <<"&:focus", TRUE>> >>

\* the state keys of a block that have a generator and a defined nested block
MatchingKeys(style) ==
    { e.k : e \in { MappingOf(style)[n] : n \in 1..Len(MappingOf(style)) } }
    \cap { k \in KeysOf(selectorGenerators) : Get(MappingOf(style), k) # Undefined }

\* C6: an applied block with a selectors mapping and no top-level property
\* makes no "&" call and exactly one call per state key that has a generator
\* and a defined nested block.
C6_OnlyNested ==
    \A from \in Blocks :
        (Applied(from) /\ TopLevel(BlockOf(from)) = <<>>) =>
            /\ \A n \in CallsFrom(from) : calls[n].nested
            /\ \A n \in CallsFrom(from) : calls[n].key \in MatchingKeys(BlockOf(from))
            /\ \A k \in MatchingKeys(BlockOf(from)) :
                  Cardinality({ n \in CallsFrom(from) : calls[n].key = k }) = 1

\* C6 witness: a base with only a mapping of two states, one of them without a
\* generator, made the one matching call
C6_Witness ==
    /\ pc = "returned"
    /\ base # Undefined
    /\ TopLevel(base.v) = <<>>
    /\ Len(MappingOf(base.v)) = 2
    /\ Cardinality(MatchingKeys(base.v)) = 1
    /\ Len(calls) = 1
    /\ calls[1].nested

\* C9: the rule of an "&" call is the block's top-level entries without the
\* selectors mapping, each unchanged, at-rule blocks included; the rule of a
\* nested-state call is the nested block given for that state, unchanged; no
\* "&" call carries the block's selectors key.
C9_RulePassedThrough ==
    \A n \in 1..Len(calls) :
        IF calls[n].nested
        THEN Obj(calls[n].rule) = Get(MappingOf(BlockOf(calls[n].from)), calls[n].key)
        ELSE /\ calls[n].rule = TopLevel(BlockOf(calls[n].from))
             /\ "selectors" \notin KeysOf(calls[n].rule)

\* C9 witness: a block with an at-rule and a selectors mapping passed the
\* at-rule on in its "&" call and the nested block in the state's call
C9_Witness ==
    /\ pc = "returned"
    /\ base # Undefined
    /\ "selectors" \in KeysOf(base.v)
    /\ \E m, n \in 1..Len(calls) :
          /\ ~calls[m].nested /\ calls[m].rule = << Width, Media >>
          /\ calls[n].nested /\ calls[n].rule = << Color >>

NoSelfGenerator == Get(selectorGenerators, "&") = Undefined

\* C10 as stated: without the "&" generator every invocation ends in an error
\* and no call is made.
C10_AlwaysFails ==
    NoSelfGenerator => (pc # "returned" /\ calls = <<>>)

\* the block globalRecipe has just handled: the base, or entry idx - 1
LastBlock == IF idx = 1 THEN 0 ELSE idx - 1

\* C10 amended: without the "&" generator globalRecipe throws (a TypeError)
\* exactly when it comes to apply a block, the base or a compound variant with
\* a non-empty selector, that has a top-level property: nothing is called for
\* that block or after it, the nested-state calls of the blocks before it stay
\* made, and an invocation none of whose applied blocks has a top-level
\* property returns normally with its nested-state calls made.
C10_FailsAtFirstProperty ==
    NoSelfGenerator =>
        /\ \A n \in 1..Len(calls) : calls[n].nested
        /\ pc = "thrown" =>
              /\ TopLevel(BlockOf(LastBlock)) # <<>>
              /\ ClassSelectorOf(LastBlock) # ""
              /\ CallsFrom(LastBlock) = {}
        /\ \A from \in Blocks :
              Applied(from) => TopLevel(BlockOf(from)) = <<>>
        /\ \A from \in Blocks :
              Applied(from) =>
                  Cardinality(CallsFrom(from)) = Cardinality(MatchingKeys(BlockOf(from)))

\* C10 witness: the base's hover call was made, then the first compound
\* variant's top-level property made globalRecipe throw
C10_Witness ==
    /\ NoSelfGenerator
    /\ pc = "thrown"
    /\ idx = 2
    /\ Len(calls) = 1
    /\ calls[1].from = 0

\* C10 witness of the normal return: no "&" generator, and calls were made
C10_WitnessReturned ==
    /\ NoSelfGenerator
    /\ pc = "returned"
    /\ calls # <<>>

\* the calls made with the "&" generator for a block
SelfGeneratorCalls(from) == { n \in CallsFrom(from) : calls[n].key = "&" }

\* C11 as stated: the key "&" is never handled as a nested state: no call is
\* made for a "&" key of a selectors mapping, and the "&" generator is applied
\* at most once per block.
C11_SelfKeyIgnored ==
    /\ \A n \in 1..Len(calls) : calls[n].nested => calls[n].key # "&"
    /\ \A from \in Blocks : Cardinality(SelfGeneratorCalls(from)) <= 1

\* C11 amended: a "&" key of a selectors mapping is handled like every other
\* state key: an applied block makes one call with the "&" generator for its
\* top-level properties, if it has any, and one more for the nested block under
\* "&", if the mapping gives one and the "&" generator exists. So the "&"
\* generator is applied at most once per block exactly for the blocks whose
\* mapping has no "&" key with a defined block, and up to twice otherwise.
C11_SelfKeyHandled ==
    \A from \in { b \in Blocks : b = 0 => base # Undefined } :
        /\ Applied(from) =>
              Cardinality(SelfGeneratorCalls(from))
                = (IF TopLevel(BlockOf(from)) # <<>> THEN 1 ELSE 0)
                  + (IF "&" \in MatchingKeys(BlockOf(from)) THEN 1 ELSE 0)
        /\ \A n \in SelfGeneratorCalls(from) :
              calls[n].nested =>
                  /\ "&" \in MatchingKeys(BlockOf(from))
                  /\ Obj(calls[n].rule) = Get(MappingOf(BlockOf(from)), "&")
        /\ "&" \notin KeysOf(MappingOf(BlockOf(from)))
              => Cardinality(SelfGeneratorCalls(from)) <= 1

\* C11 witness: a base with a top-level property and a block under "&" in its
\* mapping made two calls with the "&" generator
C11_Witness ==
    /\ pc = "returned"
    /\ base # Undefined
    /\ compoundVariants = Undefined
    /\ TopLevel(base.v) = << Width >>
    /\ [n \in 1..Len(calls) |-> <<calls[n].selector, calls[n].nested>>]
         = << <<".btn svg", FALSE>>, <<".btn svg", TRUE>> >>

\* the blocks the invocation was given
GivenBlocks == { b \in Blocks : b = 0 => base # Undefined }

\* the number of calls a block's style describes, counting every key of its
\* mapping, and counting only the keys with a generator and a defined block
Described(style) ==
    (IF TopLevel(style) # <<>> THEN 1 ELSE 0) + Len(MappingOf(style))
Matching(style) ==
    (IF TopLevel(style) # <<>> THEN 1 ELSE 0) + Cardinality(MatchingKeys(style))

\* C12 as stated: for the base and for every compound variant, globalRecipe
\* makes either every call the style describes (the "&" call when it has
\* top-level properties, plus one per key of its selectors mapping) or none.
C12_AllDescribedOrNone ==
    \A from \in GivenBlocks :
        Cardinality(CallsFrom(from)) \in {0, Described(BlockOf(from))}

\* C12 amended: for the base and for every compound variant, globalRecipe
\* makes either every call the style describes for which there is a generator
\* and a defined block (the "&" call when it has top-level properties, plus one
\* per key of its selectors mapping that has a generator and a defined nested
\* block) or none: all of them when the block is applied, none when the entry
\* is skipped or the "&" generator is missing for its top-level properties.
C12_AllMatchingOrNone ==
    \A from \in GivenBlocks :
        /\ Cardinality(CallsFrom(from)) \in {0, Matching(BlockOf(from))}
        /\ Applied(from) => Cardinality(CallsFrom(from)) = Matching(BlockOf(from))
        /\ ~Applied(from) => CallsFrom(from) = {}

\* C12 witness: globalRecipe threw at a compound variant with a top-level
\* property and a hover block, having made none of its calls, after the base
\* made all of its own
C12_Witness ==
    /\ pc = "thrown"
    /\ idx = 2
    /\ base # Undefined
    /\ compoundVariants.v[1].style = << Width, Hover >>
    /\ CallsFrom(0) # {}
    /\ CallsFrom(1) = {}

NoCompoundVariants == compoundVariants \in {Undefined, Array(<<>>)}

\* the calls the base alone accounts for, and whether applying it throws
BaseThrows == base # Undefined /\ TopLevel(base.v) # <<>> /\ NoSelfGenerator
BaseCalls ==
    IF base = Undefined \/ BaseThrows THEN <<>>
    ELSE (IF TopLevel(base.v) # <<>>
          THEN << GlobalStyleCall(("." \o recipe.base) \o Get(selectorGenerators, "&").suffix,
                                  TopLevel(base.v), 0, "&", FALSE) >>
          ELSE <<>>)
         \o SelectorCalls(selectorGenerators, "." \o recipe.base,
                          Enumerated(MappingOf(base.v)), 0)

\* C13: without base and with compoundVariants omitted or empty, globalStyle
\* is never called; with compoundVariants omitted or empty the calls are those
\* of the base alone and the invocation ends the same way, whichever of the
\* two was passed.
C13_OmittedOrEmpty ==
    NoCompoundVariants =>
        /\ base = Undefined => (calls = <<>> /\ pc # "thrown")
        /\ pc # "base" => calls = BaseCalls
        /\ pc = "thrown" <=> (pc # "base" /\ BaseThrows)
        /\ pc = "forEach" => ENABLED Return

\* C13 witness: an invocation with a base and the empty array returned with
\* the base's two calls
C13_Witness ==
    /\ pc = "returned"
    /\ compoundVariants = Array(<<>>)
    /\ base = Obj(<< Width, Hover >>)
    /\ Len(calls) = 2

\* C13 witness without base: omitted compoundVariants, nothing called
C13_WitnessNoBase ==
    /\ pc = "returned"
    /\ compoundVariants = Undefined
    /\ base = Undefined
    /\ calls = <<>>

\* a style without the keys of its mapping that have no generator
WithoutUnmatched(style) ==
    [n \in 1..Len(style) |->
        IF style[n].k = "selectors" /\ style[n].v # Undefined
        THEN [k |-> "selectors",
              v |-> Obj(SelectSeq(style[n].v.v,
                                  LAMBDA e : e.k \in KeysOf(selectorGenerators)))]
        ELSE style[n]]

\* the calls of one block, in the order they were made
CallSeqFrom(from) == SelectSeq(calls, LAMBDA c : c.from = from)

\* C14: a state key without a generator is passed over silently: no call is
\* made under it, no error comes of it, and the block's other calls are those
\* of the same block without that key.
C14_MissingGeneratorSkipped ==
    /\ \A n \in 1..Len(calls) : calls[n].key \in KeysOf(selectorGenerators)
    /\ pc = "thrown" => (NoSelfGenerator /\ TopLevel(BlockOf(LastBlock)) # <<>>)
    /\ \A from \in GivenBlocks :
          Applied(from) =>
              CallSeqFrom(from)
                = applyStyle(selectorGenerators, ClassSelectorOf(from),
                             WithoutUnmatched(BlockOf(from)), from).calls

\* C14 witness: a base with a top-level property, a hover block without a
\* generator and a focus block with one made its "&" call and its focus call
C14_Witness ==
    /\ pc = "returned"
    /\ base # Undefined
    /\ "&:hover" \notin KeysOf(selectorGenerators)
    /\ Get(MappingOf(base.v), "&:hover") = Obj(<< Color >>)
    /\ [n \in 1..Len(calls) |-> calls[n].key] = << "&", "&:focus" >>

\* forEach has an entry left to call back with (the guard of
\* ForEachCompoundVariant, whose other conjuncts only assign)
MoreCompoundVariants ==
    /\ pc = "forEach"
    /\ Truthy(compoundVariants)
    /\ idx <= Len(compoundVariants.v)

\* C15: with the "&" generator defined, globalRecipe never throws and always
\* has a next step until it has returned; a choice entry that is unset, names
\* an unknown group or an unknown value adds nothing to the selector
\* buildVariantSelector returned for it.
C15_RunsToCompletion ==
    ~NoSelfGenerator =>
        /\ pc # "thrown"
        /\ pc = "base" => ENABLED ApplyBase
        /\ pc = "forEach" => (ENABLED Return \/ MoreCompoundVariants)
        /\ pc \in {"base", "forEach", "returned"}
        /\ selector # Undefined =>
              selector = Str(Concatenation(recipe, Enumerated(variants)))

\* C15 witness: the invocation returned after a compound variant whose choice
\* is unset, names an unknown group and names an unknown value
C15_Witness ==
    /\ ~NoSelfGenerator
    /\ pc = "returned"
    /\ variants = << [k |-> "size", v |-> Undefined], [k |-> "ghost", v |-> Str("sm")],
                     [k |-> "disabled", v |-> Str("xl")] >>
    /\ selector = Str("")

\* some entry of compound variant i resolves to a class name
SomeResolves(i) ==
    \E n \in 1..Len(compoundVariants.v[i].variants) :
        Qualifies(recipe, compoundVariants.v[i].variants[n])

\* C17: a compound variant is skipped only when none of its choice entries
\* resolves: when one does, its style is applied under the selector built from
\* the resolving entries alone, the unset entries and those naming an absent
\* group, an absent value or an empty class name left out.
C17_PartlyResolvedApplied ==
    \A i \in Blocks \ {0} :
        /\ (i < idx /\ SomeResolves(i) /\ ~(pc = "thrown" /\ idx = i + 1)) =>
              /\ Cardinality(CallsFrom(i)) = Matching(BlockOf(i))
              /\ \A n \in CallsFrom(i) :
                    calls[n].selector
                      = Concatenation(recipe, Enumerated(compoundVariants.v[i].variants))
                        \o Get(selectorGenerators, calls[n].key).suffix
        /\ ~SomeResolves(i) => CallsFrom(i) = {}

\* C17 witness: a choice of five entries of which only disabled: false resolves
\* had its style registered under the one class
C17_Witness ==
    /\ pc = "returned"
    /\ compoundVariants # Undefined
    /\ Len(compoundVariants.v) >= 1
    /\ Len(compoundVariants.v[1].variants) = 5
    /\ \E n \in CallsFrom(1) : calls[n].selector = ".d_f svg"

----------------------------------------------------------------------------
(* Claims about repeated invocations, checked under SpecRepeat *)

\* the calls the entries from..to of the compound variants make, from the
\* arguments alone
RECURSIVE CompoundCalls(_, _)
CompoundCalls(from, to) ==
    IF from > to THEN <<>>
    ELSE LET entry == compoundVariants.v[from]
             variantSelector == buildVariantSelector(recipe, entry.variants)
         IN (IF variantSelector # ""
             THEN applyStyle(selectorGenerators, variantSelector, entry.style, from).calls
             ELSE <<>>)
            \o CompoundCalls(from + 1, to)

\* the calls the running invocation has made so far, from its arguments and
\* its position alone
OwnCalls ==
    IF pc = "base" THEN <<>>
    ELSE (IF Truthy(base)
          THEN applyStyle(selectorGenerators, BaseClassSelector(recipe), base.v, 0).calls
          ELSE <<>>)
         \o (IF Truthy(compoundVariants) THEN CompoundCalls(1, idx - 1) ELSE <<>>)

\* what globalStyle has received since the running invocation began
Last(s) == s[Len(s)]
SinceInvoked == SubSeq(calls, Last(marks) + 1, Len(calls))

\* C16: what globalStyle receives from an invocation is what the invocation's
\* own arguments yield, whatever it received before; what it received before
\* stays as it was and the new calls come after it; a compound variant given
\* twice makes its calls twice.
C16_Independent ==
    /\ [](SinceInvoked = OwnCalls)
    /\ [][/\ Len(calls') >= Len(calls)
          /\ SubSeq(calls', 1, Len(calls)) = calls]_vars

\* C16 witness: the second of two invocations returned having made again the
\* calls of the first, which had a compound variant given twice
C16_Witness ==
    /\ pc = "returned"
    /\ Len(marks) = 2
    /\ marks[2] >= 3
    /\ Len(calls) = 2 * marks[2]
    /\ SubSeq(calls, 1, marks[2]) = SinceInvoked
    /\ Len(compoundVariants.v) = 2
    /\ compoundVariants.v[1] = compoundVariants.v[2]
    /\ calls[Len(calls)].selector = calls[Len(calls) - 1].selector

====
